---------------------------- MODULE Spec2Model ----------------------------
(***************************************************************************)
(* A model of pageindex/ocr_utils.py: the header locator, the hierarchy   *)
(* inferencer, the fuzzy anchor matcher, the TOC anchoring service and    *)
(* the paged token view.                                                  *)
(*                                                                         *)
(* Python strings are sequences of one-character strings, Python dicts    *)
(* are records whose DOMAIN is the set of keys present, Python lists are  *)
(* sequences, and None is the value None below.                           *)
(***************************************************************************)
EXTENDS Integers, Sequences, FiniteSets, TLC

VARIABLES
    ocr_results,     \* the OCR page sequence a function is called with
    headers,         \* extract_section_headers_with_bbox: its list `headers`
    toc_items,       \* detect_toc_from_headers: its list `toc_items`
    enhanced_items,  \* enhance_toc_with_bbox: its list `enhanced_items`
    page_data,       \* find_text_bbox_in_page: argument page_data
    search_text,     \* find_text_bbox_in_page: argument search_text
    fuzzy_match,     \* find_text_bbox_in_page: argument fuzzy_match
    view,            \* the OCRPageListWrapper object (its fields)
    index,           \* the argument of the last call on the view
    result,          \* the value the last call returned (or raised)
    i,               \* position of the running for-loop (1-based)
    pc               \* which function is running / has returned

vars == <<ocr_results, headers, toc_items, enhanced_items, page_data,
          search_text, fuzzy_match, view, index, result, i, pc>>

---------------------------------------------------------------------------
(* Bounds of the model.                                                    *)

MaxHeaders == 4

---------------------------------------------------------------------------
(* Python values.                                                          *)

None == <<"None">>

Has(d, k) == k \in DOMAIN d

Get(d, k, default) == IF k \in DOMAIN d THEN d[k] ELSE default

SetKey(d, k, v) == (k :> v) @@ d

Min(a, b) == IF a < b THEN a ELSE b

---------------------------------------------------------------------------
(* str methods and the regular expressions the module uses.                *)

IsSpace(c) == c \in {" ", "\t", "\n"}

RECURSIVE LStrip(_)
LStrip(s) ==
    IF s # <<>> /\ IsSpace(Head(s)) THEN LStrip(Tail(s)) ELSE s

RECURSIVE RStrip(_)
RStrip(s) ==
    IF s # <<>> /\ IsSpace(s[Len(s)]) THEN RStrip(SubSeq(s, 1, Len(s) - 1)) ELSE s

Strip(s) == RStrip(LStrip(s))

LowerChar(c) ==
    CASE c = "A" -> "a"
      [] c = "B" -> "b"
      [] c = "C" -> "c"
      [] c = "D" -> "d"
      [] c = "E" -> "e"
      [] OTHER -> c

Lower(s) == [n \in 1..Len(s) |-> LowerChar(s[n])]

StartsWith(s, prefix) ==
    Len(prefix) <= Len(s) /\ SubSeq(s, 1, Len(prefix)) = prefix

Contains(s, sub) ==
    \E n \in 0..(Len(s) - Len(sub)) : SubSeq(s, n + 1, n + Len(sub)) = sub

RECURSIVE CollapseSpaces(_)
CollapseSpaces(s) ==
    IF s = <<>> THEN <<>>
    ELSE IF IsSpace(Head(s))
         THEN <<" ">> \o CollapseSpaces(LStrip(s))
         ELSE <<Head(s)>> \o CollapseSpaces(Tail(s))

RECURSIVE SplitFrom(_, _)
SplitFrom(s, word) ==
    IF s = <<>> THEN (IF word = <<>> THEN <<>> ELSE <<word>>)
    ELSE IF IsSpace(Head(s))
         THEN (IF word = <<>> THEN <<>> ELSE <<word>>) \o SplitFrom(Tail(s), <<>>)
         ELSE SplitFrom(Tail(s), Append(word, Head(s)))

Split(s) == SplitFrom(s, <<>>)

RECURSIVE StripHashes(_)
StripHashes(s) ==
    IF s # <<>> /\ Head(s) = "#" THEN StripHashes(Tail(s)) ELSE s

SubHeaderMarks(s) ==
    IF s # <<>> /\ Head(s) = "#" THEN LStrip(StripHashes(s)) ELSE s

Digit == <<"0", "1", "2", "3", "4", "5", "6", "7", "8", "9">>

RECURSIVE Str(_)
Str(n) ==
    IF n < 10 THEN <<Digit[n + 1]>> ELSE Str(n \div 10) \o <<Digit[(n % 10) + 1]>>

RECURSIVE Join(_, _)
Join(sep, parts) ==
    IF parts = <<>> THEN <<>>
    ELSE IF Len(parts) = 1 THEN parts[1]
    ELSE parts[1] \o sep \o Join(sep, Tail(parts))

---------------------------------------------------------------------------
(* detect_toc_from_headers                                                 *)

CleanedText(text) == Strip(SubHeaderMarks(text))

(* HeaderLevel with the '###' test tried before the '####' test.          *)
HeaderLevelMisordered(text) ==
    IF StartsWith(text, <<"#", "#", "#">>) THEN 3
    ELSE IF StartsWith(text, <<"#", "#", "#", "#">>) THEN 4
    ELSE IF StartsWith(text, <<"#", "#">>) THEN 2
    ELSE 1

HeaderLevel(text) ==
    IF StartsWith(text, <<"#", "#", "#", "#">>) THEN 4
    ELSE IF StartsWith(text, <<"#", "#", "#">>) THEN 3
    ELSE IF StartsWith(text, <<"#", "#">>) THEN 2
    ELSE 1

Level1Count(items) ==
    Cardinality({n \in 1..Len(items) : Get(items[n], "level", 1) = 1})

(* L2CountUnder without the parent_section test.                          *)
L2CountAll(items, parent) ==
    Cardinality({n \in 1..Len(items) : Get(items[n], "level", 1) = 2})

L2CountUnder(items, parent) ==
    Cardinality({n \in 1..Len(items) :
        /\ Get(items[n], "level", 1) = 2
        /\ Has(items[n], "parent_section")
        /\ items[n].parent_section = parent})

StructureParts(items, level) ==
    IF level = 1 THEN <<Str(Level1Count(items) + 1)>>
    ELSE IF level = 2
         THEN <<Str(Level1Count(items)),
                Str(L2CountUnder(items, Level1Count(items)) + 1)>>
         ELSE <<>>

Structure(items, level) ==
    IF StructureParts(items, level) # <<>>
    THEN Join(<<".">>, StructureParts(items, level))
    ELSE None

HasParentSection(items, level) == level = 2 /\ Level1Count(items) > 0

TocItem(items, header) ==
    LET level == HeaderLevel(header.text)
        base  == [structure      |-> Structure(items, level),
                  title          |-> CleanedText(header.text),
                  physical_index |-> header.physical_index,
                  bbox           |-> header.bbox,
                  page_no        |-> header.page_no,
                  level          |-> level]
    IN  IF HasParentSection(items, level)
        THEN SetKey(base, "parent_section", Level1Count(items))
        ELSE base

RECURSIVE TocItemsOf(_, _)
TocItemsOf(items, hs) ==
    IF hs = <<>> THEN items
    ELSE TocItemsOf(Append(items, TocItem(items, Head(hs))), Tail(hs))

DetectTocFromHeaders(hs) ==
    LET items == TocItemsOf(<<>>, hs)
    IN  [toc_items |-> items, has_structure |-> Len(items) > 0]

(* The header texts the hierarchy inferencer is run on.                    *)
HeaderTexts ==
    { <<"E">>,
      <<"#", " ", "A">>,
      <<"#", "#", " ", "B">>,
      <<"#", "#", " ", "C">>,
      <<"#", " ", "D">>,
      <<"#", "#", "#", "C">>,
      <<"#", "#", "#", "#", " ", "D">>,
      <<"#", "#", "#", "#", "#", " ", "E">> }

BoxOf(n) == <<n, n, n + 10, n + 10>>

SectionHeader ==
    <<"S", "e", "c", "t", "i", "o", "n", "-", "h", "e", "a", "d", "e", "r">>

HeaderAt(n, text) ==
    [page_no |-> 0, text |-> text, bbox |-> BoxOf(n),
     category |-> SectionHeader, physical_index |-> 1]

RECURSIVE HeaderListsOfLen(_)
HeaderListsOfLen(len) ==
    IF len = 0 THEN {<<>>}
    ELSE {Append(hs, HeaderAt(len, text)) :
            <<hs, text>> \in HeaderListsOfLen(len - 1) \X HeaderTexts}

HeaderListsUpTo(max) == UNION {HeaderListsOfLen(len) : len \in 0..max}

Idle == <<>>

InitToc ==
    /\ headers \in HeaderListsUpTo(MaxHeaders)
    /\ toc_items = <<>>
    /\ i = 1
    /\ pc = "detect"
    /\ result = None
    /\ ocr_results = Idle /\ enhanced_items = Idle /\ page_data = Idle
    /\ search_text = Idle /\ fuzzy_match = FALSE /\ view = Idle /\ index = 0

DetectStep ==
    /\ pc = "detect"
    /\ i <= Len(headers)
    /\ toc_items' = Append(toc_items, TocItem(toc_items, headers[i]))
    /\ i' = i + 1
    /\ UNCHANGED <<ocr_results, headers, enhanced_items, page_data, search_text,
                   fuzzy_match, view, index, result, pc>>

DetectReturn ==
    /\ pc = "detect"
    /\ i > Len(headers)
    /\ result' = [toc_items |-> toc_items, has_structure |-> Len(toc_items) > 0]
    /\ pc' = "done"
    /\ UNCHANGED <<ocr_results, headers, toc_items, enhanced_items, page_data,
                   search_text, fuzzy_match, view, index, i>>

NextToc == DetectStep \/ DetectReturn

SpecToc == InitToc /\ [][NextToc]_vars


---------------------------------------------------------------------------
(* find_text_bbox_in_page                                                  *)

Normalize(text) == CollapseSpaces(Strip(Lower(text)))

WordSet(s) == {Split(s)[n] : n \in 1..Len(Split(s))}

Overlaps(search_text_clean, item_text_clean) ==
    2 * Cardinality(WordSet(search_text_clean) \cap WordSet(item_text_clean)) >
        Min(Len(Split(search_text_clean)), Len(Split(item_text_clean)))

FuzzyHit(search_text_clean, item_text_clean) ==
    \/ Contains(item_text_clean, search_text_clean)
    \/ Contains(search_text_clean, item_text_clean)
    \/ Overlaps(search_text_clean, item_text_clean)

(* ExactHit with `in` in place of `==`.                                   *)
ExactHitContains(search_text_clean, item_text_clean) ==
    Contains(item_text_clean, search_text_clean)

ExactHit(search_text_clean, item_text_clean) ==
    search_text_clean = item_text_clean

ItemHits(item, text, fuzzy) ==
    /\ Has(item, "text")
    /\ Has(item, "bbox")
    /\ IF fuzzy
       THEN FuzzyHit(Normalize(text), Normalize(item.text))
       ELSE ExactHit(Normalize(text), Normalize(item.text))

RECURSIVE FirstHitBbox(_, _, _)
FirstHitBbox(items, text, fuzzy) ==
    IF items = <<>> THEN None
    ELSE IF ItemHits(Head(items), text, fuzzy) THEN Head(items).bbox
    ELSE FirstHitBbox(Tail(items), text, fuzzy)

FindTextBboxInPage(page, text, fuzzy) ==
    IF ~Has(page, "full_layout_info") THEN None
    ELSE FirstHitBbox(page.full_layout_info, text, fuzzy)

(* The texts the matcher is run on: queries and item texts.                *)
FindTexts ==
    { <<"a", " ", "a">>,
      <<"a", " ", "b">>,
      <<"A", " ", "\t", "b", " ">>,
      <<"b", " ", "a">>,
      <<"a">>,
      <<"c">>,
      <<"a", "b">>,
      <<>> }

MaxFindItems == 2

FindItemsAt(n) ==
    [text : FindTexts, bbox : {BoxOf(n)}] \cup [text : FindTexts] \cup [bbox : {BoxOf(n)}]

RECURSIVE FindLayoutsOfLen(_)
FindLayoutsOfLen(len) ==
    IF len = 0 THEN {<<>>}
    ELSE {Append(l, item) : <<l, item>> \in FindLayoutsOfLen(len - 1) \X FindItemsAt(len)}

FindLayouts == UNION {FindLayoutsOfLen(len) : len \in 0..MaxFindItems}

FindPages ==
    {[page_no |-> 0]} \cup {[page_no |-> 0, full_layout_info |-> l] : l \in FindLayouts}

InitFind ==
    /\ page_data \in FindPages
    /\ search_text \in FindTexts
    /\ fuzzy_match \in BOOLEAN
    /\ i = 1
    /\ pc = "find"
    /\ result = None
    /\ ocr_results = Idle /\ headers = Idle /\ toc_items = Idle
    /\ enhanced_items = Idle /\ view = Idle /\ index = 0

FindNoLayout ==
    /\ pc = "find"
    /\ ~Has(page_data, "full_layout_info")
    /\ result' = None
    /\ pc' = "done"
    /\ UNCHANGED <<ocr_results, headers, toc_items, enhanced_items, page_data,
                   search_text, fuzzy_match, view, index, i>>

FindHit ==
    /\ pc = "find"
    /\ Has(page_data, "full_layout_info")
    /\ i <= Len(page_data.full_layout_info)
    /\ ItemHits(page_data.full_layout_info[i], search_text, fuzzy_match)
    /\ result' = page_data.full_layout_info[i].bbox
    /\ pc' = "done"
    /\ UNCHANGED <<ocr_results, headers, toc_items, enhanced_items, page_data,
                   search_text, fuzzy_match, view, index, i>>

FindSkip ==
    /\ pc = "find"
    /\ Has(page_data, "full_layout_info")
    /\ i <= Len(page_data.full_layout_info)
    /\ ~ItemHits(page_data.full_layout_info[i], search_text, fuzzy_match)
    /\ i' = i + 1
    /\ UNCHANGED <<ocr_results, headers, toc_items, enhanced_items, page_data,
                   search_text, fuzzy_match, view, index, result, pc>>

FindExhausted ==
    /\ pc = "find"
    /\ Has(page_data, "full_layout_info")
    /\ i > Len(page_data.full_layout_info)
    /\ result' = None
    /\ pc' = "done"
    /\ UNCHANGED <<ocr_results, headers, toc_items, enhanced_items, page_data,
                   search_text, fuzzy_match, view, index, i>>

NextFind == FindNoLayout \/ FindHit \/ FindSkip \/ FindExhausted

SpecFind == InitFind /\ [][NextFind]_vars

---------------------------------------------------------------------------
(* extract_section_headers_with_bbox                                       *)

(* IsSectionHeader with `==` in place of `in`.                            *)
IsSectionHeaderExact(category) == category = SectionHeader

IsSectionHeader(category) == Contains(category, SectionHeader)

Qualifies(item) ==
    /\ Has(item, "category")
    /\ IsSectionHeader(Get(item, "category", <<>>))
    /\ Has(item, "text")
    /\ Has(item, "bbox")

(* HeaderRecord without the conversion to 1-based indexing.               *)
HeaderRecordZeroBased(page_no, item) ==
    [page_no        |-> page_no,
     text           |-> Strip(item.text),
     bbox           |-> item.bbox,
     category       |-> item.category,
     physical_index |-> page_no]

HeaderRecord(page_no, item) ==
    [page_no        |-> page_no,
     text           |-> Strip(item.text),
     bbox           |-> item.bbox,
     category       |-> item.category,
     physical_index |-> page_no + 1]

RECURSIVE HeadersOfItems(_, _)
HeadersOfItems(page_no, items) ==
    IF items = <<>> THEN <<>>
    ELSE (IF Qualifies(Head(items))
          THEN <<HeaderRecord(page_no, Head(items))>>
          ELSE <<>>) \o HeadersOfItems(page_no, Tail(items))

HeadersOfPage(page) ==
    IF Has(page, "full_layout_info")
    THEN HeadersOfItems(Get(page, "page_no", 0), page.full_layout_info)
    ELSE <<>>

RECURSIVE ExtractSectionHeaders(_)
ExtractSectionHeaders(pages) ==
    IF pages = <<>> THEN <<>>
    ELSE HeadersOfPage(Head(pages)) \o ExtractSectionHeaders(Tail(pages))

(* The layout items and pages the header locator is run on.                *)
TextCategory == <<"T", "e", "x", "t">>

LowerCategory ==
    <<"s", "e", "c", "t", "i", "o", "n", "-", "h", "e", "a", "d", "e", "r">>

WrappedCategory == <<"T", "i", "t", "l", "e", ",">> \o SectionHeader \o <<"s">>

Omit(d, k) == [key \in DOMAIN d \ {k} |-> d[key]]

ItemAt(n, category, text) == [category |-> category, text |-> text, bbox |-> BoxOf(n)]

TitleA == <<"#", " ", "A">>

TitleB == <<" ", "#", "#", " ", "B", " ">>

TitleC == <<"a", " ", "b">>

HeaderLayouts ==
    { <<>>,
      <<ItemAt(1, SectionHeader, TitleA)>>,
      <<ItemAt(1, TextCategory, TitleC), ItemAt(2, WrappedCategory, TitleB)>>,
      <<ItemAt(1, SectionHeader, TitleB), ItemAt(2, SectionHeader, TitleA)>>,
      <<ItemAt(1, LowerCategory, TitleA), Omit(ItemAt(2, SectionHeader, TitleA), "bbox"),
        ItemAt(3, SectionHeader, TitleC)>>,
      <<Omit(ItemAt(1, SectionHeader, TitleA), "text"),
        Omit(ItemAt(2, SectionHeader, TitleB), "category")>> }

MaxPages == 2

PagesAt(n, layouts) ==
    UNION { {[page_no |-> no, full_layout_info |-> l], [full_layout_info |-> l]}
            : <<no, l>> \in {n - 1, n + 1} \X layouts }
    \cup {[page_no |-> n - 1]}

RECURSIVE PageListsOfLen(_, _)
PageListsOfLen(layouts, len) ==
    IF len = 0 THEN {<<>>}
    ELSE {Append(pages, page) :
            <<pages, page>> \in PageListsOfLen(layouts, len - 1) \X PagesAt(len, layouts)}

PageListsOver(layouts, max) == UNION {PageListsOfLen(layouts, len) : len \in 0..max}

InitHeaders ==
    /\ ocr_results \in PageListsOver(HeaderLayouts, MaxPages)
    /\ headers = <<>>
    /\ i = 1
    /\ pc = "extract"
    /\ result = None
    /\ toc_items = Idle /\ enhanced_items = Idle /\ page_data = Idle
    /\ search_text = Idle /\ fuzzy_match = FALSE /\ view = Idle /\ index = 0

ExtractStep ==
    /\ pc = "extract"
    /\ i <= Len(ocr_results)
    /\ headers' = headers \o HeadersOfPage(ocr_results[i])
    /\ i' = i + 1
    /\ UNCHANGED <<ocr_results, toc_items, enhanced_items, page_data, search_text,
                   fuzzy_match, view, index, result, pc>>

ExtractReturn ==
    /\ pc = "extract"
    /\ i > Len(ocr_results)
    /\ result' = headers
    /\ pc' = "done"
    /\ UNCHANGED <<ocr_results, headers, toc_items, enhanced_items, page_data,
                   search_text, fuzzy_match, view, index, i>>

NextHeaders == ExtractStep \/ ExtractReturn

SpecHeaders == InitHeaders /\ [][NextHeaders]_vars

---------------------------------------------------------------------------
(* enhance_toc_with_bbox                                                   *)

(* Python truth of what find_text_bbox_in_page returned: None and the      *)
(* empty list are false.                                                   *)
Truthy(bbox) == bbox # None /\ bbox # <<>>

(* Anchored with the computed offset in place of the page's own page_no.  *)
AnchoredAtOffset(item, page, page_index) ==
    LET bbox == FindTextBboxInPage(page, item.title, TRUE)
    IN  IF Truthy(bbox)
        THEN SetKey(SetKey(item, "bbox", bbox), "page_no", page_index)
        ELSE item

Anchored(item, page, page_index) ==
    LET bbox == FindTextBboxInPage(page, item.title, TRUE)
    IN  IF Truthy(bbox)
        THEN SetKey(SetKey(item, "bbox", bbox),
                    "page_no", Get(page, "page_no", page_index))
        ELSE item

EnhanceItem(item, pages) ==
    IF Has(item, "physical_index") /\ Has(item, "title")
    THEN LET page_index == item.physical_index - 1
         IN  IF 0 <= page_index /\ page_index < Len(pages)
             THEN Anchored(item, pages[page_index + 1], page_index)
             ELSE item
    ELSE item

(* item.copy(): what the caller's entry is after its copy was enhanced.    *)
AfterCopy(item, enhanced_item) == item

RECURSIVE EnhanceTocWithBbox(_, _)
EnhanceTocWithBbox(items, pages) ==
    IF items = <<>> THEN <<>>
    ELSE <<EnhanceItem(Head(items), pages)>> \o EnhanceTocWithBbox(Tail(items), pages)

(* The pages and TOC entries the anchoring service is run on.              *)
PageA ==
    [page_no |-> 4,
     full_layout_info |-> <<ItemAt(1, TextCategory, <<"a", " ", "b">>),
                            ItemAt(2, TextCategory, <<"c">>)>>]

PageB ==
    [full_layout_info |-> <<[text |-> <<"c">>],
                            ItemAt(2, SectionHeader, <<"b", " ", "a">>)>>]

PageC == [page_no |-> 1]

PageD ==
    [page_no |-> 1,
     full_layout_info |-> <<[text |-> <<"c">>, bbox |-> <<>>],
                            ItemAt(2, TextCategory, <<"c">>)>>]

EnhancePageLists ==
    { <<>>, <<PageA, PageB>>, <<PageB, PageA>>, <<PageC, PageD>>, <<PageD>> }

TocTitles == { <<"A", " ", "b">>, <<"c">> }

TocEntries ==
    [physical_index : 0..3, title : TocTitles]
    \cup [physical_index : 1..2, title : TocTitles, bbox : {BoxOf(9)}, page_no : {9}]
    \cup [title : TocTitles]
    \cup [physical_index : 1..2]

MaxToc == 2

TocLists == UNION {[1..len -> TocEntries] : len \in 0..MaxToc}

InitEnhance ==
    /\ ocr_results \in EnhancePageLists
    /\ toc_items \in TocLists
    /\ enhanced_items = <<>>
    /\ i = 1
    /\ pc = "enhance"
    /\ result = None
    /\ headers = Idle /\ page_data = Idle /\ search_text = Idle
    /\ fuzzy_match = FALSE /\ view = Idle /\ index = 0

EnhanceStep ==
    /\ pc = "enhance"
    /\ i <= Len(toc_items)
    /\ LET enhanced_item == EnhanceItem(toc_items[i], ocr_results)
       IN  /\ enhanced_items' = Append(enhanced_items, enhanced_item)
           /\ toc_items' = [toc_items EXCEPT ![i] = AfterCopy(@, enhanced_item)]
    /\ i' = i + 1
    /\ UNCHANGED <<ocr_results, headers, page_data, search_text, fuzzy_match,
                   view, index, result, pc>>

EnhanceReturn ==
    /\ pc = "enhance"
    /\ i > Len(toc_items)
    /\ result' = enhanced_items
    /\ pc' = "done"
    /\ UNCHANGED <<ocr_results, headers, toc_items, enhanced_items, page_data,
                   search_text, fuzzy_match, view, index, i>>

NextEnhance == EnhanceStep \/ EnhanceReturn

SpecEnhance == InitEnhance /\ [][NextEnhance]_vars

---------------------------------------------------------------------------
(* extract_text_from_ocr_page, get_page_tokens_from_ocr, OCRPageListWrapper *)

RECURSIVE PageTexts(_)
PageTexts(items) ==
    IF items = <<>> THEN <<>>
    ELSE (IF Has(Head(items), "text") /\ Strip(Head(items).text) # <<>>
          THEN <<Strip(Head(items).text)>>
          ELSE <<>>) \o PageTexts(Tail(items))

ExtractTextFromOcrPage(page) ==
    IF Has(page, "full_layout_info")
    THEN Join(<<"\n">>, PageTexts(page.full_layout_info))
    ELSE <<>>

(* len(enc.encode(page_text)): the tokenizer is a library outside the      *)
(* module, so a page's token count is any number up to MaxTokens.          *)
MaxTokens == 1

PageLists(pages) ==
    { [n \in 1..Len(pages) |-> <<ExtractTextFromOcrPage(pages[n]), tokens[n]>>]
      : tokens \in [1..Len(pages) -> 0..MaxTokens] }

(* list.__getitem__ with an int: a negative index counts from the end,    *)
(* an index outside -len..len-1 raises IndexError.                         *)
Returned(value) == [returned |-> value]

Raised(error) == [raised |-> error]

(* ListIndex clamping an index past either end to the nearest element.    *)
ListIndexClamped(list, idx) ==
    IF list = <<>> THEN Raised("IndexError")
    ELSE IF idx >= Len(list) THEN Returned(list[Len(list)])
    ELSE IF idx < -Len(list) THEN Returned(list[1])
    ELSE IF idx >= 0 THEN Returned(list[idx + 1])
    ELSE Returned(list[Len(list) + idx + 1])

ListIndex(list, idx) ==
    IF 0 <= idx /\ idx < Len(list) THEN Returned(list[idx + 1])
    ELSE IF -Len(list) <= idx /\ idx < 0 THEN Returned(list[Len(list) + idx + 1])
    ELSE Raised("IndexError")

ViewLayouts ==
    { <<>>,
      <<ItemAt(1, SectionHeader, TitleB), [bbox |-> BoxOf(2)],
        ItemAt(3, TextCategory, <<" ", "\t">>), ItemAt(4, TextCategory, TitleC)>>,
      <<ItemAt(1, TextCategory, TitleA)>> }

InitView ==
    /\ ocr_results \in PageListsOver(ViewLayouts, MaxPages)
    /\ view = Idle
    /\ index = 0
    /\ result = None
    /\ pc = "new"
    /\ i = 1
    /\ headers = Idle /\ toc_items = Idle /\ enhanced_items = Idle
    /\ page_data = Idle /\ search_text = Idle /\ fuzzy_match = FALSE

ViewInit ==
    /\ pc = "new"
    /\ \E page_list \in PageLists(ocr_results) :
          view' = [ocr_results |-> ocr_results,
                   model       |-> "gpt-4o-2024-11-20",
                   page_list   |-> page_list]
    /\ pc' = "ready"
    /\ UNCHANGED <<ocr_results, headers, toc_items, enhanced_items, page_data,
                   search_text, fuzzy_match, index, result, i>>

ViewLen ==
    /\ pc # "new"
    /\ result' = Returned(Len(view.page_list))
    /\ pc' = "len"
    /\ UNCHANGED <<ocr_results, headers, toc_items, enhanced_items, page_data,
                   search_text, fuzzy_match, view, index, i>>

ViewGetItem ==
    /\ pc # "new"
    /\ \E idx \in (-(MaxPages + 1))..(MaxPages + 1) :
          /\ index' = idx
          /\ result' = ListIndex(view.page_list, idx)
    /\ pc' = "getitem"
    /\ UNCHANGED <<ocr_results, headers, toc_items, enhanced_items, page_data,
                   search_text, fuzzy_match, view, i>>

NextView == ViewInit \/ ViewLen \/ ViewGetItem

SpecView == InitView /\ [][NextView]_vars

---------------------------------------------------------------------------
(* extract_section_headers_with_bbox, then detect_toc_from_headers, then   *)
(* enhance_toc_with_bbox on its toc_items, over pages whose page_no is     *)
(* their position and whose bboxes are all non-empty.                      *)

PipelineLayouts ==
    HeaderLayouts \cup
    { <<ItemAt(1, TextCategory, <<"a">>),
        ItemAt(2, SectionHeader, <<"#", "#", " ", "A", " ", "b">>)>>,
      <<ItemAt(1, TextCategory, <<"c">>), ItemAt(2, SectionHeader, <<"#", "#">>),
        ItemAt(3, SectionHeader, <<"a", " ", "a">>)>> }

PipelinePagesAt(n) ==
    {[page_no |-> n - 1, full_layout_info |-> l] : l \in PipelineLayouts}
    \cup {[page_no |-> n - 1]}

RECURSIVE PipelinePageListsOfLen(_)
PipelinePageListsOfLen(len) ==
    IF len = 0 THEN {<<>>}
    ELSE {Append(pages, page) :
            <<pages, page>> \in PipelinePageListsOfLen(len - 1) \X PipelinePagesAt(len)}

PipelinePageLists == UNION {PipelinePageListsOfLen(len) : len \in 0..MaxPages}

InitPipeline ==
    /\ ocr_results \in PipelinePageLists
    /\ headers = <<>>
    /\ toc_items = <<>>
    /\ enhanced_items = <<>>
    /\ pc = "extract"
    /\ result = None
    /\ i = 1
    /\ page_data = Idle /\ search_text = Idle /\ fuzzy_match = FALSE
    /\ view = Idle /\ index = 0

RunExtract ==
    /\ pc = "extract"
    /\ headers' = ExtractSectionHeaders(ocr_results)
    /\ pc' = "detect"
    /\ UNCHANGED <<ocr_results, toc_items, enhanced_items, page_data, search_text,
                   fuzzy_match, view, index, result, i>>

RunDetect ==
    /\ pc = "detect"
    /\ result' = DetectTocFromHeaders(headers)
    /\ toc_items' = DetectTocFromHeaders(headers).toc_items
    /\ pc' = "enhance"
    /\ UNCHANGED <<ocr_results, headers, enhanced_items, page_data, search_text,
                   fuzzy_match, view, index, i>>

RunEnhance ==
    /\ pc = "enhance"
    /\ enhanced_items' = EnhanceTocWithBbox(toc_items, ocr_results)
    /\ pc' = "done"
    /\ UNCHANGED <<ocr_results, headers, toc_items, page_data, search_text,
                   fuzzy_match, view, index, result, i>>

NextPipeline == RunExtract \/ RunDetect \/ RunEnhance

SpecPipeline == InitPipeline /\ [][NextPipeline]_vars

---------------------------------------------------------------------------
(* Properties of detect_toc_from_headers.                                  *)

RECURSIVE HashRun(_)
HashRun(text) ==
    IF text # <<>> /\ Head(text) = "#" THEN 1 + HashRun(Tail(text)) ELSE 0

Level1Before(n) == Cardinality({m \in 1..(n - 1) : HashRun(headers[m].text) <= 1})

SiblingsBefore(n, parent) ==
    Cardinality({m \in 1..(n - 1) :
        /\ HashRun(headers[m].text) = 2
        /\ Has(toc_items[m], "parent_section")
        /\ toc_items[m].parent_section = parent})

ExampleTexts ==
    << <<"#", " ", "A">>, <<"#", "#", " ", "B">>,
       <<"#", "#", " ", "C">>, <<"#", " ", "D">> >>

TextsOf(hs) == [n \in 1..Len(hs) |-> hs[n].text]

StructuresOf(items) == [n \in 1..Len(items) |-> items[n].structure]

(* C1: the k-th level-1 header (zero or one leading '#') gets structure    *)
(* "k"; a level-2 header ('##') emitted when P >= 1 level-1 nodes exist    *)
(* gets structure "P.j" and parent_section P, j being 1 plus the number    *)
(* of earlier level-2 nodes whose parent_section is P; and the headers     *)
(* "# A", "## B", "## C", "# D" yield "1", "1.1", "1.2", "2" with          *)
(* parent_section 1 on the two level-2 nodes.                              *)
C1_IncrementalNumbering ==
    /\ \A n \in 1..Len(toc_items) :
          LET r == HashRun(headers[n].text)
              P == Level1Before(n)
          IN  /\ r <= 1 => toc_items[n].structure = Str(P + 1)
              /\ (r = 2 /\ P >= 1) =>
                    /\ Has(toc_items[n], "parent_section")
                    /\ toc_items[n].parent_section = P
                    /\ toc_items[n].structure =
                          Str(P) \o <<".">> \o Str(1 + SiblingsBefore(n, P))
    /\ (pc = "done" /\ TextsOf(headers) = ExampleTexts) =>
          /\ StructuresOf(result.toc_items) =
                << <<"1">>, <<"1", ".", "1">>, <<"1", ".", "2">>, <<"2">> >>
          /\ Has(result.toc_items[2], "parent_section")
          /\ result.toc_items[2].parent_section = 1
          /\ Has(result.toc_items[3], "parent_section")
          /\ result.toc_items[3].parent_section = 1
          /\ ~Has(result.toc_items[1], "parent_section")
          /\ ~Has(result.toc_items[4], "parent_section")

C1_Witness ==
    /\ pc = "done"
    /\ TextsOf(headers) = ExampleTexts
    /\ StructuresOf(result.toc_items) =
          << <<"1">>, <<"1", ".", "1">>, <<"1", ".", "2">>, <<"2">> >>

(* C2: a level-2 header ('##') that comes before any level-1 header gets   *)
(* no parent_section and structure None.                                   *)
C2_OrphanLevel2HasNoStructure ==
    \A n \in 1..Len(toc_items) :
        (HashRun(headers[n].text) = 2 /\ Level1Before(n) = 0) =>
            /\ ~Has(toc_items[n], "parent_section")
            /\ toc_items[n].structure = None

IsShallow(h) == HashRun(h.text) <= 2

IsShallowNode(t) == t.level <= 2

ShallowItems(items) == SelectSeq(items, IsShallowNode)

(* C8: one node per header, in header order; level is 1 for zero or one    *)
(* leading '#' and the run length for two, three or four, always in 1..4;  *)
(* a node of level 3 or 4 has structure None and no parent_section, and    *)
(* removing the level-3/4 headers leaves every level-1 and level-2         *)
(* structure as it was.                                                    *)
C8_OneNodePerHeader ==
    /\ Len(toc_items) = i - 1
    /\ pc = "done" => /\ Len(result.toc_items) = Len(headers)
                      /\ result.toc_items = toc_items
    /\ \A n \in 1..Len(toc_items) :
          LET r == HashRun(headers[n].text)
              t == toc_items[n]
          IN  /\ t.level \in 1..4
              /\ r <= 1 => t.level = 1
              /\ r \in 2..4 => t.level = r
              /\ t.title = Strip(SubSeq(headers[n].text, r + 1, Len(headers[n].text)))
              /\ t.bbox = headers[n].bbox
              /\ t.level \in {3, 4} =>
                    t.structure = None /\ ~Has(t, "parent_section")
    /\ pc = "done" =>
          StructuresOf(ShallowItems(toc_items)) =
              StructuresOf(TocItemsOf(<<>>, SelectSeq(headers, IsShallow)))

C8_Witness ==
    /\ pc = "done"
    /\ Len(toc_items) = 4
    /\ toc_items[1].level = 1
    /\ toc_items[2].level = 3
    /\ toc_items[3].level = 2
    /\ toc_items[3].structure = <<"1", ".", "1">>
    /\ toc_items[4].level = 4

(* C9: the nodes of one call whose structure is present have pairwise      *)
(* distinct structures, and the level-2 nodes sharing a parent_section P   *)
(* carry P.1, P.2, ... in emission order.                                  *)
C9_DistinctStructures ==
    /\ \A m, n \in 1..Len(toc_items) :
          (m # n /\ toc_items[m].structure # None) =>
              toc_items[m].structure # toc_items[n].structure
    /\ \A n \in 1..Len(toc_items) :
          Has(toc_items[n], "parent_section") =>
              toc_items[n].structure =
                  Str(toc_items[n].parent_section) \o <<".">> \o
                  Str(1 + SiblingsBefore(n, toc_items[n].parent_section))

---------------------------------------------------------------------------
(* Properties of find_text_bbox_in_page.                                   *)

Searchable(item) == Has(item, "text") /\ Has(item, "bbox")

Layout(page) == IF Has(page, "full_layout_info") THEN page.full_layout_info ELSE <<>>

(* The positions of the items with text and bbox that Rule accepts are    *)
(* given as `hits`: the bbox of the first of them, None when there is none. *)
FirstBboxAmong(page, hits) ==
    IF hits = {} THEN None
    ELSE Layout(page)[CHOOSE n \in hits : \A m \in hits : n <= m].bbox

SearchablePositions(page) ==
    {n \in 1..Len(Layout(page)) : Searchable(Layout(page)[n])}

WordSetRule(query, text) ==
    LET q == Normalize(query)
        t == Normalize(text)
    IN  \/ Contains(t, q)
        \/ Contains(q, t)
        \/ 2 * Cardinality(WordSet(q) \cap WordSet(t)) >
              Min(Cardinality(WordSet(q)), Cardinality(WordSet(t)))

(* C3: in fuzzy mode the result is the bbox of the first item with text    *)
(* and bbox whose normalized text contains the normalized query, or is     *)
(* contained in it, or shares with it more distinct words than half the    *)
(* smaller of the two counts of distinct words; None when there is no      *)
(* such item or no layout data.                                            *)
C3_FuzzyWordSetRule ==
    (pc = "done" /\ fuzzy_match) =>
        result = FirstBboxAmong(page_data,
                     {n \in SearchablePositions(page_data) :
                         WordSetRule(search_text, page_data.full_layout_info[n].text)})

(* C4: in exact mode the result is the bbox of the first item with text    *)
(* and bbox whose normalized text equals the normalized query, and None    *)
(* for every other query.                                                  *)
C4_ExactMode ==
    (pc = "done" /\ ~fuzzy_match) =>
        result = FirstBboxAmong(page_data,
                     {n \in SearchablePositions(page_data) :
                         Normalize(page_data.full_layout_info[n].text) =
                             Normalize(search_text)})

C4_Witness ==
    /\ pc = "done"
    /\ ~fuzzy_match
    /\ Len(Layout(page_data)) = 2
    /\ Searchable(page_data.full_layout_info[1])
    /\ Searchable(page_data.full_layout_info[2])
    /\ Contains(Normalize(page_data.full_layout_info[1].text), Normalize(search_text))
    /\ Normalize(page_data.full_layout_info[1].text) # Normalize(search_text)
    /\ result = BoxOf(2)

---------------------------------------------------------------------------
(* Properties of extract_section_headers_with_bbox.                        *)

IsHeaderItem(item) ==
    /\ Has(item, "category") /\ Has(item, "text") /\ Has(item, "bbox")
    /\ \E a, b \in 0..Len(item.category) :
          a <= b /\ SubSeq(item.category, a + 1, b) = SectionHeader

(* The number of header items at or before item n of page p, pages and     *)
(* items in their original order.                                          *)
ItemPositions(p) ==
    UNION {{<<q, n>> : n \in 1..Len(Layout(ocr_results[q]))} : q \in 1..p}

HeaderRank(p, n) ==
    Cardinality({pos \in ItemPositions(p) :
        /\ (pos[1] < p \/ pos[2] <= n)
        /\ IsHeaderItem(Layout(ocr_results[pos[1]])[pos[2]])})

ItemTotal(p) == Cardinality(ItemPositions(p))

(* C7: one header record for each layout item whose category contains      *)
(* "Section-header" and which has text and bbox, none for any other item,  *)
(* in page order and then item order; every record's category contains     *)
(* "Section-header" and its physical_index is its page_no + 1; and there   *)
(* are at most as many records as layout items.                            *)
C7_HeaderLocator ==
    LET seen == i - 1
    IN  /\ Len(headers) = (IF seen = 0 THEN 0
                           ELSE HeaderRank(seen, Len(Layout(ocr_results[seen]))))
        /\ Len(headers) <= ItemTotal(seen)
        /\ \A p \in 1..seen : \A n \in 1..Len(Layout(ocr_results[p])) :
              LET item == Layout(ocr_results[p])[n]
              IN  IsHeaderItem(item) =>
                    LET h == headers[HeaderRank(p, n)]
                    IN  /\ h.bbox = item.bbox
                        /\ h.category = item.category
                        /\ h.text = Strip(item.text)
                        /\ h.page_no = Get(ocr_results[p], "page_no", 0)
        /\ \A k \in 1..Len(headers) :
              /\ Contains(headers[k].category, SectionHeader)
              /\ headers[k].physical_index = headers[k].page_no + 1
        /\ pc = "done" => result = headers

C7_Witness ==
    /\ pc = "done"
    /\ Len(ocr_results) = 2
    /\ Len(Layout(ocr_results[1])) = 3
    /\ Len(Layout(ocr_results[2])) = 2
    /\ Len(result) = 2
    /\ result[1].bbox = BoxOf(3)
    /\ result[2].category = WrappedCategory
    /\ result[2].physical_index = 2

---------------------------------------------------------------------------
(* Properties of enhance_toc_with_bbox.                                    *)

OnPage(entry) ==
    /\ Has(entry, "physical_index")
    /\ Has(entry, "title")
    /\ entry.physical_index - 1 \in 0..(Len(ocr_results) - 1)

PageOf(entry) == ocr_results[entry.physical_index]

MatchOf(entry) == FindTextBboxInPage(PageOf(entry), entry.title, TRUE)

WithAnchor(entry, bbox) ==
    [k \in DOMAIN entry \cup {"bbox", "page_no"} |->
        IF k = "bbox" THEN bbox
        ELSE IF k = "page_no"
             THEN (IF Has(PageOf(entry), "page_no") THEN PageOf(entry).page_no
                   ELSE entry.physical_index - 1)
             ELSE entry[k]]

(* C5 as stated: the output has the length and order of the input; an      *)
(* entry on a real page whose title fuzzy-matches an item of that page     *)
(* carries the matched bbox and the page's page_no (the offset when the    *)
(* page records none); every other entry is returned equal to the input.   *)
C5_EveryMatchIsAttached ==
    /\ Len(enhanced_items) = i - 1
    /\ \A n \in 1..Len(enhanced_items) :
          LET entry == toc_items[n]
          IN  IF OnPage(entry) /\ MatchOf(entry) # None
              THEN enhanced_items[n] = WithAnchor(entry, MatchOf(entry))
              ELSE enhanced_items[n] = entry

AnchoredOutput ==
    /\ Len(enhanced_items) = i - 1
    /\ pc = "done" => result = enhanced_items /\ Len(result) = Len(toc_items)
    /\ \A n \in 1..Len(enhanced_items) :
          LET entry == toc_items[n]
          IN  IF OnPage(entry) /\ MatchOf(entry) \notin {None, <<>>}
              THEN enhanced_items[n] = WithAnchor(entry, MatchOf(entry))
              ELSE enhanced_items[n] = entry

(* C5, amended: as C5, with the bbox attached only when the first          *)
(* fuzzy-matching item's bbox is non-empty; an entry whose first match     *)
(* has an empty bbox is returned equal to the input entry, like an entry   *)
(* without a match; and the input list is never changed.                   *)
C5_NonEmptyMatchIsAttached ==
    /\ []AnchoredOutput
    /\ [][toc_items' = toc_items]_vars

C5_Witness ==
    /\ pc = "done"
    /\ Len(toc_items) = 2
    /\ OnPage(toc_items[1]) /\ ~Has(PageOf(toc_items[1]), "page_no")
    /\ Has(toc_items[1], "bbox")
    /\ result[1].bbox = BoxOf(2) /\ result[1].page_no = 0
    /\ toc_items[1].bbox = BoxOf(9)
    /\ Has(toc_items[2], "physical_index")
    /\ toc_items[2].physical_index = Len(ocr_results) + 1
    /\ result[2] = toc_items[2]

---------------------------------------------------------------------------
(* Properties of OCRPageListWrapper.                                       *)

(* C6: len(view) is the number of pages the view was built from, and       *)
(* view[i] with i out of range for a sequence of that length (i >= n or    *)
(* i < -n) raises instead of returning a pair.                             *)
C6_OutOfRangeIndexFails ==
    LET n == Len(ocr_results)
    IN  /\ pc = "len" => result = [returned |-> n]
        /\ pc # "new" => Len(view.page_list) = n
        /\ (pc = "getitem" /\ (index >= n \/ index < -n)) =>
              /\ DOMAIN result = {"raised"}
              /\ result.raised = "IndexError"
        /\ (pc = "getitem" /\ index \in 0..(n - 1)) =>
              /\ DOMAIN result = {"returned"}
              /\ result.returned = view.page_list[index + 1]
              /\ result.returned[1] = ExtractTextFromOcrPage(ocr_results[index + 1])

C6_Witness ==
    /\ pc = "getitem"
    /\ Len(ocr_results) = 2
    /\ index = 2
    /\ result = [raised |-> "IndexError"]

---------------------------------------------------------------------------
(* Properties of the three functions run in sequence.                      *)

OwnItemMatches(node, header) ==
    \E n \in 1..Len(Layout(ocr_results[header.page_no + 1])) :
        LET item == Layout(ocr_results[header.page_no + 1])[n]
        IN  /\ Searchable(item)
            /\ item.bbox = header.bbox
            /\ Strip(item.text) = header.text
            /\ ItemHits(item, node.title, TRUE)

(* C10: over pages whose page_no is their position and whose bboxes are    *)
(* non-empty, every node that extract, detect and enhance produce in       *)
(* sequence finds a match (its title fuzzy-matches the header's own        *)
(* item), keeps its page_no, and carries the bbox of the first             *)
(* fuzzy-matching item of its page.                                        *)
C10_EveryNodeIsAnchored ==
    pc = "done" =>
        /\ Len(enhanced_items) = Len(headers)
        /\ \A n \in 1..Len(enhanced_items) :
              LET page == ocr_results[headers[n].page_no + 1]
                  node == toc_items[n]
              IN  /\ OwnItemMatches(node, headers[n])
                  /\ enhanced_items[n].page_no = node.page_no
                  /\ enhanced_items[n].page_no = headers[n].page_no
                  /\ enhanced_items[n].bbox # None
                  /\ enhanced_items[n].bbox =
                        FirstBboxAmong(page,
                            {k \in SearchablePositions(page) :
                                ItemHits(Layout(page)[k], node.title, TRUE)})
                  /\ enhanced_items[n] = [node EXCEPT !.bbox = enhanced_items[n].bbox]

C10_Witness ==
    /\ pc = "done"
    /\ Len(ocr_results) = 2
    /\ Len(enhanced_items) = 3
    /\ enhanced_items[1].page_no = 0
    /\ enhanced_items[2].page_no = 1
    /\ enhanced_items[2].title = <<>>
    /\ enhanced_items[2].bbox = BoxOf(1)
    /\ toc_items[2].bbox = BoxOf(2)

=============================================================================
